---- MODULE Spec2Model ----
(***************************************************************************)
(* A model of cpp_prop: the boolean tautology layer of template.h (class   *)
(* templates selected by specialization) and the constructive layer of     *)
(* constructive_logic.h / enhanced_prover.cpp (proofs as std::function     *)
(* values, And as a struct, Or as a std::variant), and the type-level      *)
(* Peano arithmetic of peano_prover.cpp.                                   *)
(*                                                                         *)
(* The library is stateless; the state of the model is the last operation  *)
(* a driver performed: its name, its template arguments, the values it was *)
(* given, what it produced, and the calls that were made while it ran on   *)
(* the functions it was given, on the maps it constructed and on the map   *)
(* of principle_of_explosion.                                              *)
(***************************************************************************)
EXTENDS Integers, Sequences, FiniteSets, TLC

VARIABLES op, targs, input, result, called

vars == <<op, targs, input, result, called>>

(***************************************************************************)
(* Bounds.                                                                 *)
(***************************************************************************)
\* number of values of the two-or-more-valued proposition type int
MaxInt == 2
\* an operation is applied to all inhabitants of its argument types as long
\* as there are at most this many combinations of them
MaxInputs == 600
\* a nullary rule is constructed for type arguments whose result has at most
\* this many table entries
MaxCells == 4000
\* the number of times a rule is applied to its own result
MaxRepeat == 3
\* the largest Peano numeral that is instantiated
MaxPeano == 3

(***************************************************************************)
(* Boolean layer (template.h).  A class template is a primary template and *)
(* a list of specializations; "_" in a pattern is a template parameter,    *)
(* "$n" as member type stands for the n-th template argument.              *)
(***************************************************************************)
TrueType == "TrueType"
FalseType == "FalseType"
BoolTypes == {TrueType, FalseType}
Ambiguous == "ambiguous"

Matches(pat, args) ==
  \A i \in DOMAIN pat : pat[i] = "_" \/ pat[i] = args[i]

\* p is at least as specialized as q
AtLeastAsSpecialized(p, q) ==
  \A i \in DOMAIN q : q[i] = "_" \/ q[i] = p[i]

Resolve(type, args) ==
  CASE type = "$1" -> args[1]
    [] type = "$2" -> args[2]
    [] OTHER -> type

\* the member `type` of the instantiation of a template with `args`
Select(specs, args) ==
  LET matching == {i \in DOMAIN specs : Matches(specs[i].pat, args)}
      best == {i \in matching :
                 \A j \in matching : AtLeastAsSpecialized(specs[i].pat, specs[j].pat)}
  IN IF Cardinality(best) = 1
     THEN Resolve(specs[CHOOSE i \in best : TRUE].type, args)
     ELSE Ambiguous

AndSpecs ==
  << [pat |-> <<"_", "_">>, type |-> FalseType],
     [pat |-> <<TrueType, TrueType>>, type |-> TrueType] >>

\* Or without its full specialization: <TrueType, TrueType> matches two
\* partial specializations, neither more specialized than the other
OrSpecsNoFull ==
  << [pat |-> <<"_", "_">>, type |-> FalseType],
     [pat |-> <<TrueType, "_">>, type |-> TrueType],
     [pat |-> <<"_", TrueType>>, type |-> TrueType] >>

OrSpecs ==
  << [pat |-> <<"_", "_">>, type |-> FalseType],
     [pat |-> <<TrueType, "_">>, type |-> TrueType],
     [pat |-> <<"_", TrueType>>, type |-> TrueType],
     [pat |-> <<TrueType, TrueType>>, type |-> TrueType] >>

NotSpecs ==
  << [pat |-> <<"_">>, type |-> FalseType],
     [pat |-> <<FalseType>>, type |-> TrueType] >>

\* Implies specialized on its second parameter instead of its first
ImpliesSpecsConverse ==
  << [pat |-> <<"_", "_">>, type |-> TrueType],
     [pat |-> <<"_", TrueType>>, type |-> "$1"] >>

ImpliesSpecs ==
  << [pat |-> <<"_", "_">>, type |-> TrueType],
     [pat |-> <<TrueType, "_">>, type |-> "$2"] >>

\* the boolean-layer templates And, Or, Not, Implies of namespace cpp_prop
BAnd(A, B) == Select(AndSpecs, <<A, B>>)

BOrNoFull(A, B) == Select(OrSpecsNoFull, <<A, B>>)

BOr(A, B) == Select(OrSpecs, <<A, B>>)

BNot(A) == Select(NotSpecs, <<A>>)

BImpliesConverse(A, B) == Select(ImpliesSpecsConverse, <<A, B>>)

BImplies(A, B) == Select(ImpliesSpecs, <<A, B>>)

\* Equiv with one direction only
EquivOneWay(A, B) == BImplies(A, B)

Equiv(A, B) == BAnd(BImplies(A, B), BImplies(B, A))

\* Syllogism without its premises
SyllogismConclusionOnly(A, B, C) == BImplies(A, C)

Syllogism(A, B, C) ==
  LET AB == BImplies(A, B)
      BC == BImplies(B, C)
  IN BImplies(BAnd(AB, BC), BImplies(A, C))

(***************************************************************************)
(* Constructive layer (constructive_logic.h): propositions are types.      *)
(***************************************************************************)
True == [k |-> "base", n |-> "True"]
False == [k |-> "base", n |-> "False"]
\* a proposition type with more than one value (int in enhanced_prover.cpp)
int == [k |-> "base", n |-> "int"]

Implies(A, B) == [k |-> "imp", a |-> A, b |-> B]
And(A, B) == [k |-> "and", a |-> A, b |-> B]
Or(A, B) == [k |-> "or", a |-> A, b |-> B]
Not(A) == Implies(A, False)

\* the exceptions a call can end with
Exc == {"logic_error", "bad_variant_access"}

\* the outcome of a call: a returned value or a thrown exception, as the
\* pair <<thrown, value or exception>>
Ret(v) == <<FALSE, v>>
Throw(e) == <<TRUE, e>>

BaseVals(n) ==
  CASE n = "True" -> {"True{}"}
    [] n = "False" -> {"False{}"}
    [] n = "int" -> {ToString(i) : i \in 0..(MaxInt - 1)}

\* the values of a type; a std::function<B(A)> is a map from the values of
\* A to outcomes of B, a std::variant<A, B> is the pair <<index, value>>
RECURSIVE Inh(_)
Inh(T) ==
  CASE T.k = "base" -> BaseVals(T.n)
    [] T.k = "and" -> {[a |-> x, b |-> y] : x \in Inh(T.a), y \in Inh(T.b)}
    [] T.k = "or" -> {<<0, x>> : x \in Inh(T.a)}
                       \cup {<<1, y>> : y \in Inh(T.b)}
    [] T.k = "imp" -> [Inh(T.a) -> {Ret(v) : v \in Inh(T.b)}
                                      \cup {Throw(e) : e \in Exc}]

\* does the value v have type T
RECURSIVE HasType(_, _)
HasType(v, T) ==
  CASE T.k = "base" -> v \in BaseVals(T.n)
    [] T.k = "and" -> HasType(v.a, T.a) /\ HasType(v.b, T.b)
    [] T.k = "or" -> /\ v[1] \in {0, 1}
                     /\ HasType(v[2], IF v[1] = 0 THEN T.a ELSE T.b)
    [] T.k = "imp" -> /\ DOMAIN v = Inh(T.a)
                      /\ \A x \in DOMAIN v :
                           IF v[x][1] THEN v[x][2] \in Exc
                           ELSE HasType(v[x][2], T.b)

\* the outcomes of a call that returns a T
Out(T) == {Ret(v) : v \in Inh(T)} \cup {Throw(e) : e \in Exc}

\* a value is total when it returns a total value, without throwing, for
\* every total argument
RECURSIVE Total(_, _)
Total(v, T) ==
  CASE T.k = "base" -> TRUE
    [] T.k = "and" -> Total(v.a, T.a) /\ Total(v.b, T.b)
    [] T.k = "or" -> Total(v[2], IF v[1] = 0 THEN T.a ELSE T.b)
    [] T.k = "imp" -> \A x \in DOMAIN v :
                        Total(x, T.a) => ~v[x][1] /\ Total(v[x][2], T.b)

OutHasType(o, T) == IF o[1] THEN o[2] \in Exc ELSE HasType(o[2], T)

\* sequencing: an exception thrown while an argument is evaluated propagates
Bind(o, f) == IF o[1] THEN o ELSE f[o[2]]
\* o is the outcome of an expression yielding a function, applied to x
BindApply(o, x) == IF o[1] THEN o ELSE o[2][x]

(***************************************************************************)
(* Sizes of types, capped, to keep the enumerated inputs small.            *)
(***************************************************************************)
Cap == MaxInputs + 1
Min(x, y) == IF x < y THEN x ELSE y

RECURSIVE CappedPow(_, _)
CappedPow(b, e) == IF e = 0 THEN 1 ELSE Min(Cap, b * CappedPow(b, e - 1))

RECURSIVE Size(_)
Size(T) ==
  CASE T.k = "base" -> Cardinality(BaseVals(T.n))
    [] T.k = "and" -> Min(Cap, Size(T.a) * Size(T.b))
    [] T.k = "or" -> Min(Cap, Size(T.a) + Size(T.b))
    [] T.k = "imp" -> CappedPow(Size(T.b) + Cardinality(Exc), Size(T.a))

\* the number of entries of the (nested) table of a value of type T
RECURSIVE Cells(_)
Cells(T) ==
  CASE T.k = "base" -> 1
    [] T.k = "and" -> Cells(T.a) + Cells(T.b)
    [] T.k = "or" -> IF Cells(T.a) > Cells(T.b) THEN Cells(T.a) ELSE Cells(T.b)
    [] T.k = "imp" -> Min(Cap * Cap, Size(T.a) * Cells(T.b))

(***************************************************************************)
(* The inference rules (constructive_logic.h).                             *)
(***************************************************************************)
\* one invocation of the function f on x, as it is logged: the name of the
\* function, the argument and the outcome
Call(name, f, x) == <<name, x, f[x]>>

\* modus_ponens handing back its argument
modus_ponens_echo(a, f) == Ret(a)

modus_ponens(a, f) == f[a]

\* the calls modus_ponens(a, f) makes
modus_ponens_calls(a, f) == <<Call("f", f, a)>>

\* always_true of prover.cpp
always_true == [t \in Inh(True) |-> Ret("True{}")]

\* and_intro with the components of the pair swapped
and_intro_swapped(A, B) ==
  [a \in Inh(A) |-> Ret([b \in Inh(B) |-> Ret([a |-> b, b |-> a])])]

and_intro(A, B) ==
  [a \in Inh(A) |-> Ret([b \in Inh(B) |-> Ret([a |-> a, b |-> b])])]

and_elim_left(A, B) == [and_ab \in Inh(And(A, B)) |-> Ret(and_ab.a)]

and_elim_right(A, B) == [and_ab \in Inh(And(A, B)) |-> Ret(and_ab.b)]

or_intro_left(A, B) == [a \in Inh(A) |-> Ret(<<0, a>>)]

or_intro_right(A, B) == [b \in Inh(B) |-> Ret(<<1, b>>)]

\* the visitor of or_elim reading the variant with std::get<0>
or_elim_visit_get0(A, B, or_ab, ac, bc) ==
  IF or_ab[1] = 0
  THEN [handler |-> "ac", out |-> ac[or_ab[2]]]
  ELSE [handler |-> "ac", out |-> Throw("bad_variant_access")]

\* the visitor of or_elim: T is the type of the alternative or_ab holds, and
\* the branch is taken on std::is_same_v<T, A>
or_elim_visit(A, B, or_ab, ac, bc) ==
  LET T == IF or_ab[1] = 0 THEN A ELSE B
  IN IF T = A
     THEN [handler |-> "ac", out |-> ac[or_ab[2]]]
     ELSE [handler |-> "bc", out |-> bc[or_ab[2]]]

or_elim(A, B, C) ==
  [or_ab \in Inh(Or(A, B)) |->
    Ret([ac \in Inh(Implies(A, C)) |->
      Ret([bc \in Inh(Implies(B, C)) |->
        or_elim_visit(A, B, or_ab, ac, bc).out])])]

\* double_negation_intro handing back a False of its own making
double_negation_intro_fabricate(A) ==
  [a \in Inh(A) |-> Ret([f \in Inh(Not(A)) |-> Ret("False{}")])]

double_negation_intro(A) ==
  [a \in Inh(A) |-> Ret([f \in Inh(Not(A)) |-> f[a]])]

\* principle_of_explosion returning some value of A instead of throwing
principle_of_explosion_default(A) ==
  [f \in Inh(False) |-> Ret(CHOOSE a \in Inh(A) : TRUE)]

principle_of_explosion(A) == [f \in Inh(False) |-> Throw("logic_error")]

\* syllogism that does not apply its second map
syllogism_first_only(A, ab, bc) == [a \in Inh(A) |-> ab[a]]

syllogism(A, ab, bc) == [a \in Inh(A) |-> Bind(ab[a], bc)]

prove_syllogism(A, B, C) ==
  [premises \in Inh(And(Implies(A, B), Implies(B, C))) |->
    Ret(syllogism(A, premises.a, premises.b))]

prove_syllogism_curried(A, B, C) ==
  [ab \in Inh(Implies(A, B)) |->
    Ret([bc \in Inh(Implies(B, C)) |-> Ret(syllogism(A, ab, bc))])]

contraposition(A, B) ==
  [ab \in Inh(Implies(A, B)) |->
    Ret([not_b \in Inh(Not(B)) |->
      Ret([a \in Inh(A) |-> Bind(ab[a], not_b)])])]

permute(A, B, f) ==
  [b \in Inh(B) |-> Ret([a \in Inh(A) |-> BindApply(f[a], b)])]

de_morgan_1(A, B) ==
  [not_or_ab \in Inh(Not(Or(A, B))) |->
    LET not_a == [a \in Inh(A) |-> Bind(or_intro_left(A, B)[a], not_or_ab)]
        not_b == [b \in Inh(B) |->
                   Bind(Ret(<<1, b>>), not_or_ab)]
    IN Ret([a |-> not_a, b |-> not_b])]

\* exportation whose inner closure does not use the a it was given
exportation_stale(A, B, f) ==
  [a \in Inh(A) |->
    Ret([b \in Inh(B) |-> f[[a |-> CHOOSE x \in Inh(A) : TRUE, b |-> b]]])]

exportation(A, B, f) ==
  [a \in Inh(A) |-> Ret([b \in Inh(B) |-> f[[a |-> a, b |-> b]]])]

importation(A, B, f) ==
  [premises \in Inh(And(A, B)) |-> BindApply(f[premises.a], premises.b)]

de_morgan_2(A, B) ==
  [not_a_and_not_b \in Inh(And(Not(A), Not(B))) |->
    LET not_a == and_elim_left(Not(A), Not(B))[not_a_and_not_b][2]
        not_b == and_elim_right(Not(A), Not(B))[not_a_and_not_b][2]
    IN Ret([or_ab \in Inh(Or(A, B)) |->
             LET elim == or_elim(A, B, False)
             IN elim[or_ab][2][not_a][2][not_b]])]

reductio_ad_absurdum(A, B) ==
  [a_implies_b \in Inh(Implies(A, B)) |->
    Ret([a_implies_not_b \in Inh(Implies(A, Not(B))) |->
      Ret([a \in Inh(A) |->
        LET b == modus_ponens(a, a_implies_b)
            not_b == modus_ponens(a, a_implies_not_b)
        IN IF b[1] THEN b
           ELSE IF not_b[1] THEN not_b
           ELSE modus_ponens(b[2], not_b[2])])])]

(***************************************************************************)
(* The calls a rule makes when its result is applied to every curried      *)
(* argument, in the order they are entered.                                *)
(***************************************************************************)
\* double_negation_intro<A>()(a)(f)
double_negation_intro_calls(a, f) == <<Call("f", f, a)>>

\* contraposition<A, B>()(ab)(not_b)(a)
contraposition_calls(ab, not_b, a) ==
  <<Call("ab", ab, a)>>
    \o (IF ab[a][1] THEN <<>> ELSE <<Call("not_b", not_b, ab[a][2])>>)

\* permute(f)(b)(a)
permute_calls(f, b, a) ==
  <<Call("f", f, a)>>
    \o (IF f[a][1] THEN <<>> ELSE <<Call("f(a)", f[a][2], b)>>)

\* de_morgan_1<A, B>()(not_or_ab): the component not_a applied to x
\* (side 0) or the component not_b applied to x (side 1)
de_morgan_1_calls(not_or_ab, side, x) ==
  <<Call("not_or_ab", not_or_ab, <<side, x>>)>>

\* exportation(f)(a)(b)
exportation_calls(f, a, b) == <<Call("f", f, [a |-> a, b |-> b])>>

\* importation(f)(premises)
importation_calls(f, premises) ==
  <<Call("f", f, premises.a)>>
    \o (IF f[premises.a][1] THEN <<>>
        ELSE <<Call("f(a)", f[premises.a][2], premises.b)>>)

\* de_morgan_2<A, B>()(not_a_and_not_b)(or_ab)
de_morgan_2_calls(A, B, not_a_and_not_b, or_ab) ==
  LET not_a == not_a_and_not_b.a
      not_b == not_a_and_not_b.b
      visit == or_elim_visit(A, B, or_ab, not_a, not_b)
  IN IF visit.handler = "ac"
     THEN <<Call("not_a", not_a, or_ab[2])>>
     ELSE <<Call("not_b", not_b, or_ab[2])>>

\* reductio_ad_absurdum<A, B>()(a_implies_b)(a_implies_not_b)(a)
reductio_ad_absurdum_calls(a_implies_b, a_implies_not_b, a) ==
  LET b == modus_ponens(a, a_implies_b)
      not_b == modus_ponens(a, a_implies_not_b)
  IN <<Call("a_implies_b", a_implies_b, a)>>
       \o (IF b[1] THEN <<>>
           ELSE <<Call("a_implies_not_b", a_implies_not_b, a)>>
                  \o (IF not_b[1] THEN <<>>
                      ELSE <<Call("not_b", not_b[2], b[2])>>))

(***************************************************************************)
(* The classical-axiom transformers (enhanced_prover.cpp).                 *)
(***************************************************************************)
\* prove_dne_from_lem whose second case hands back an A of its own making
\* instead of exploding
prove_dne_from_lem_no_explosion(A, lem_instance) ==
  [nna \in Inh(Not(Not(A))) |->
    LET case1 == [a \in Inh(A) |-> Ret(a)]
        case2 == [na \in Inh(Not(A)) |->
                   Bind(modus_ponens(na, nna),
                        [f \in Inh(False) |-> Ret(CHOOSE a \in Inh(A) : TRUE)])]
    IN or_elim(A, Not(A), A)[lem_instance][2][case1][2][case2]]

prove_dne_from_lem(A, lem_instance) ==
  [nna \in Inh(Not(Not(A))) |->
    LET case1 == [a \in Inh(A) |-> Ret(a)]
        case2 == [na \in Inh(Not(A)) |->
                   Bind(modus_ponens(na, nna), principle_of_explosion(A))]
    IN or_elim(A, Not(A), A)[lem_instance][2][case1][2][case2]]

\* the calls prove_dne_from_lem(lem_instance)(nna) makes on nna and on the
\* map of principle_of_explosion<A>: case1 makes none; case2 invokes nna
\* and, when nna returned, the explosion on what it returned
prove_dne_from_lem_calls(A, lem_instance, nna) ==
  LET case1 == [a \in Inh(A) |-> Ret(a)]
      case2 == [na \in Inh(Not(A)) |->
                 Bind(modus_ponens(na, nna), principle_of_explosion(A))]
      visit == or_elim_visit(A, Not(A), lem_instance, case1, case2)
      contradiction == modus_ponens(lem_instance[2], nna)
  IN IF visit.handler = "ac"
     THEN <<>>
     ELSE <<Call("nna", nna, lem_instance[2])>>
            \o (IF contradiction[1]
                THEN <<>>
                ELSE <<Call("principle_of_explosion",
                            principle_of_explosion(A), contradiction[2])>>)

\* prove_peirce_from_dne whose A->B map explodes without feeding its
\* argument to na
prove_peirce_from_dne_blind(A, B, dne_instance) ==
  [f \in Inh(Implies(Implies(A, B), A)) |->
    LET nna == [na \in Inh(Not(A)) |->
                 LET a_to_b == [a \in Inh(A) |-> Throw("logic_error")]
                     result_A == f[a_to_b]
                 IN Bind(result_A, na)]
    IN dne_instance[nna]]

prove_peirce_from_dne(A, B, dne_instance) ==
  [f \in Inh(Implies(Implies(A, B), A)) |->
    LET nna == [na \in Inh(Not(A)) |->
                 LET a_to_b == [a \in Inh(A) |->
                                 Bind(modus_ponens(a, na),
                                      principle_of_explosion(B))]
                     result_A == f[a_to_b]
                 IN Bind(result_A, na)]
    IN dne_instance[nna]]

\* a supplied function of a function, by what it does with its argument g:
\* it invokes g on each value of `probe` (none or one) and, unless g threw,
\* ends with `out`
Behaviours(probes, R) ==
  {[probe |-> p, out |-> o] :
     p \in {<<>>} \cup {<<x>> : x \in probes}, o \in Out(R)}

\* the std::function of a behaviour, on arguments of type T
TableOf(b, T) ==
  [g \in Inh(T) |->
    IF Len(b.probe) = 0 THEN b.out
    ELSE IF g[b.probe[1]][1] THEN g[b.probe[1]] ELSE b.out]

\* the calls prove_peirce_from_dne(dne_instance)(f) makes, in the order they
\* are entered, when dne_instance and f behave as dne_b and f_b: the call of
\* dne_instance on nna; if dne_instance invokes nna, the call of f on a_to_b,
\* what a_to_b does if f invokes it (na, then the explosion of B), and the
\* call of na on the A that f returned
prove_peirce_from_dne_calls(A, B, dne_b, f_b) ==
  LET dne_instance == TableOf(dne_b, Not(Not(A)))
      f == TableOf(f_b, Implies(A, B))
      a_to_b(na) == [a \in Inh(A) |->
                      Bind(modus_ponens(a, na), principle_of_explosion(B))]
      a_to_b_calls(na, a) ==
        <<Call("na", na, a)>>
          \o (IF na[a][1] THEN <<>>
              ELSE <<Call("principle_of_explosion",
                          principle_of_explosion(B), na[a][2])>>)
      f_calls(na) ==
        IF Len(f_b.probe) = 0 THEN <<>>
        ELSE <<Call("a_to_b", a_to_b(na), f_b.probe[1])>>
               \o a_to_b_calls(na, f_b.probe[1])
      nna_calls(na) ==
        LET result_A == f[a_to_b(na)]
        IN <<Call("f", f, a_to_b(na))>>
             \o f_calls(na)
             \o (IF result_A[1] THEN <<>> ELSE <<Call("na", na, result_A[2])>>)
      nna == [na \in Inh(Not(A)) |-> Bind(f[a_to_b(na)], na)]
  IN <<Call("dne_instance", dne_instance, nna)>>
       \o (IF Len(dne_b.probe) = 0 THEN <<>>
           ELSE <<Call("nna", nna, dne_b.probe[1])>>
                  \o nna_calls(dne_b.probe[1]))

\* the calls prove_dne_from_peirce(peirce_instance)(nna) makes when
\* peirce_instance behaves as peirce_b: the call of peirce_instance on
\* na_to_a and, if it invokes na_to_a, nna and then the explosion of A
prove_dne_from_peirce_calls(A, peirce_b, nna) ==
  LET peirce_specialized == TableOf(peirce_b, Implies(Not(A), A))
      na_to_a == [na \in Inh(Not(A)) |->
                   Bind(modus_ponens(na, nna), principle_of_explosion(A))]
      na_to_a_calls(na) ==
        <<Call("nna", nna, na)>>
          \o (IF nna[na][1] THEN <<>>
              ELSE <<Call("principle_of_explosion",
                          principle_of_explosion(A), nna[na][2])>>)
  IN <<Call("peirce_instance", peirce_specialized, na_to_a)>>
       \o (IF Len(peirce_b.probe) = 0 THEN <<>>
           ELSE <<Call("na_to_a", na_to_a, peirce_b.probe[1])>>
                  \o na_to_a_calls(peirce_b.probe[1]))

\* B is False: Implies<A, False> is Not<A>
prove_dne_from_peirce(A, peirce_instance) ==
  [nna \in Inh(Not(Not(A))) |->
    LET peirce_specialized == peirce_instance
        na_to_a == [na \in Inh(Not(A)) |->
                     Bind(modus_ponens(na, nna), principle_of_explosion(A))]
    IN peirce_specialized[na_to_a]]

(***************************************************************************)
(* Operations: a driver, when idle, instantiates a template or calls a     *)
(* rule on values of the argument types, and then drops the result.        *)
(***************************************************************************)
Props == {True, False, int}
\* the propositions principle_of_explosion is instantiated at
ExplosionProps == Props \cup {Not(True), And(int, True), Or(False, int)}
\* the propositions the classical axioms are instantiated at
ClassicalProps == {True, False}

\* instances of the double-negation-elimination axiom a driver can supply:
\* maps that ignore nna, maps that invoke nna once, and those derived from
\* an excluded-middle instance
DneInstances(A) ==
  {[nna \in Inh(Not(Not(A))) |-> o] : o \in Out(A)}
    \cup {[nna \in Inh(Not(Not(A))) |-> IF nna[na][1] THEN nna[na] ELSE Ret(a)] :
            na \in Inh(Not(A)), a \in Inh(A)}
    \cup {prove_dne_from_lem(A, lem) : lem \in Inh(Or(A, Not(A)))}

\* instances of Peirce's law at B = False: maps that ignore their argument,
\* maps that invoke it once, and those derived from a dne instance
PeirceInstances(A) ==
  {[g \in Inh(Implies(Not(A), A)) |-> o] : o \in Out(A)}
    \cup {[g \in Inh(Implies(Not(A), A)) |-> g[na]] : na \in Inh(Not(A))}
    \cup {prove_peirce_from_dne(A, False, dne) : dne \in DneInstances(A)}

(***************************************************************************)
(* Type-level Peano arithmetic (peano_prover.cpp).  A numeral is the type  *)
(* expression itself: Zero, or Succ around a numeral.                      *)
(***************************************************************************)
Zero == <<"Zero">>
Succ(N) == <<"Succ", N>>

RECURSIVE Add(_, _)
RECURSIVE Multiply(_, _)

\* Add<Zero, M> and Add<Succ<N>, M>
Add(N, M) ==
  IF N[1] = "Zero" THEN M ELSE Succ(Add(N[2], M))

\* Multiply with the two specializations of Add
Multiply_as_add(N, M) ==
  IF N[1] = "Zero" THEN M ELSE Succ(Add(N[2], M))

\* Multiply<Zero, M> and Multiply<Succ<N>, M>
Multiply(N, M) ==
  IF N[1] = "Zero" THEN Zero ELSE Add(Multiply(N[2], M), M)

\* the static_assert of theorem_add_zero_is_n<N> passes
theorem_add_zero_is_n(N) == Add(N, Zero) = N

One == Succ(Zero)
Two == Succ(One)
Three == Succ(Two)
Four == Succ(Three)

\* the numeral of an integer, and the integer of a numeral
RECURSIVE Numeral(_)
Numeral(n) == IF n = 0 THEN Zero ELSE Succ(Numeral(n - 1))

RECURSIVE Value(_)
Value(N) == IF N[1] = "Zero" THEN 0 ELSE 1 + Value(N[2])

\* the numerals the arithmetic is instantiated at
Numerals == {Numeral(n) : n \in 0..MaxPeano}

NoInput == <<>>

Init ==
  /\ op = "none"
  /\ targs = <<>>
  /\ input = NoInput
  /\ result = <<>>
  /\ called = <<>>

Idle == op = "none"

\* an operation that ended with `out` after the calls of `log`
DoneLogged(name, args, in, out, log) ==
  /\ op' = name
  /\ targs' = args
  /\ input' = in
  /\ result' = out
  /\ called' = log

Done(name, args, in, out) == DoneLogged(name, args, in, out, <<>>)

Instantiated(name, args, type) == Done(name, args, NoInput, type)

InstantiateAnd ==
  /\ Idle
  /\ \E A \in BoolTypes, B \in BoolTypes :
       Instantiated("And", <<A, B>>, BAnd(A, B))

InstantiateOr ==
  /\ Idle
  /\ \E A \in BoolTypes, B \in BoolTypes :
       Instantiated("Or", <<A, B>>, BOr(A, B))

InstantiateNot ==
  /\ Idle
  /\ \E A \in BoolTypes : Instantiated("Not", <<A>>, BNot(A))

InstantiateImplies ==
  /\ Idle
  /\ \E A \in BoolTypes, B \in BoolTypes :
       Instantiated("Implies", <<A, B>>, BImplies(A, B))

InstantiateEquiv ==
  /\ Idle
  /\ \E A \in BoolTypes, B \in BoolTypes :
       Instantiated("Equiv", <<A, B>>, Equiv(A, B))

InstantiateSyllogism ==
  /\ Idle
  /\ \E A \in BoolTypes, B \in BoolTypes, C \in BoolTypes :
       Instantiated("Syllogism", <<A, B, C>>, Syllogism(A, B, C))

\* the declared return type of each nullary rule
RuleType(name, A, B, C) ==
  CASE name = "and_intro" -> Implies(A, Implies(B, And(A, B)))
    [] name = "and_elim_left" -> Implies(And(A, B), A)
    [] name = "and_elim_right" -> Implies(And(A, B), B)
    [] name = "or_intro_left" -> Implies(A, Or(A, B))
    [] name = "or_intro_right" -> Implies(B, Or(A, B))
    [] name = "or_elim" ->
         Implies(Or(A, B), Implies(Implies(A, C), Implies(Implies(B, C), C)))
    [] name = "double_negation_intro" -> Implies(A, Not(Not(A)))
    [] name = "principle_of_explosion" -> Implies(False, A)
    [] name = "prove_syllogism" ->
         Implies(And(Implies(A, B), Implies(B, C)), Implies(A, C))
    [] name = "prove_syllogism_curried" ->
         Implies(Implies(A, B), Implies(Implies(B, C), Implies(A, C)))
    [] name = "contraposition" ->
         Implies(Implies(A, B), Implies(Not(B), Not(A)))
    [] name = "de_morgan_1" -> Implies(Not(Or(A, B)), And(Not(A), Not(B)))
    [] name = "de_morgan_2" -> Implies(And(Not(A), Not(B)), Not(Or(A, B)))
    [] name = "reductio_ad_absurdum" ->
         Implies(Implies(A, B), Implies(Implies(A, Not(B)), Not(A)))

Constructible(name, A, B, C) == Cells(RuleType(name, A, B, C)) <= MaxCells

\* rules of one, two and three type parameters; the unused ones are True
Construct1(name, A, value) ==
  /\ Constructible(name, A, True, True)
  /\ Done(name, <<A>>, NoInput, value)

Construct2(name, A, B, value) ==
  /\ Constructible(name, A, B, True)
  /\ Done(name, <<A, B>>, NoInput, value)

Construct3(name, A, B, C, value) ==
  /\ Constructible(name, A, B, C)
  /\ Done(name, <<A, B, C>>, NoInput, value)

Call_and_intro ==
  /\ Idle
  /\ \E A \in Props, B \in Props : Construct2("and_intro", A, B, and_intro(A, B))

Call_and_elim_left ==
  /\ Idle
  /\ \E A \in Props, B \in Props :
       Construct2("and_elim_left", A, B, and_elim_left(A, B))

Call_and_elim_right ==
  /\ Idle
  /\ \E A \in Props, B \in Props :
       Construct2("and_elim_right", A, B, and_elim_right(A, B))

Call_or_intro_left ==
  /\ Idle
  /\ \E A \in Props, B \in Props :
       Construct2("or_intro_left", A, B, or_intro_left(A, B))

Call_or_intro_right ==
  /\ Idle
  /\ \E A \in Props, B \in Props :
       Construct2("or_intro_right", A, B, or_intro_right(A, B))

Call_or_elim ==
  /\ Idle
  /\ \E A \in Props, B \in Props, C \in Props :
       Construct3("or_elim", A, B, C, or_elim(A, B, C))

Call_double_negation_intro ==
  /\ Idle
  /\ \E A \in Props :
       Construct1("double_negation_intro", A, double_negation_intro(A))

Call_principle_of_explosion ==
  /\ Idle
  /\ \E A \in ExplosionProps :
       Construct1("principle_of_explosion", A, principle_of_explosion(A))

Call_prove_syllogism ==
  /\ Idle
  /\ \E A \in Props, B \in Props, C \in Props :
       Construct3("prove_syllogism", A, B, C, prove_syllogism(A, B, C))

Call_prove_syllogism_curried ==
  /\ Idle
  /\ \E A \in Props, B \in Props, C \in Props :
       Construct3("prove_syllogism_curried", A, B, C,
                  prove_syllogism_curried(A, B, C))

Call_contraposition ==
  /\ Idle
  /\ \E A \in Props, B \in Props :
       Construct2("contraposition", A, B, contraposition(A, B))

Call_de_morgan_1 ==
  /\ Idle
  /\ \E A \in Props, B \in Props :
       Construct2("de_morgan_1", A, B, de_morgan_1(A, B))

Call_de_morgan_2 ==
  /\ Idle
  /\ \E A \in Props, B \in Props :
       Construct2("de_morgan_2", A, B, de_morgan_2(A, B))

Call_reductio_ad_absurdum ==
  /\ Idle
  /\ \E A \in Props, B \in Props :
       Construct2("reductio_ad_absurdum", A, B, reductio_ad_absurdum(A, B))

\* modus_ponens(a, f)
Call_modus_ponens ==
  /\ Idle
  /\ \E A \in Props, B \in Props :
       /\ Size(A) * Size(Implies(A, B)) <= MaxInputs
       /\ \E a \in Inh(A), f \in Inh(Implies(A, B)) :
            DoneLogged("modus_ponens", <<A, B>>, [a |-> a, f |-> f, n |-> 1],
                       modus_ponens(a, f), modus_ponens_calls(a, f))

\* modus_ponens applied to its own result, with the same f
Call_modus_ponens_again ==
  /\ op = "modus_ponens"
  /\ targs[1] = targs[2]
  /\ ~result[1]
  /\ input.n < MaxRepeat
  /\ DoneLogged("modus_ponens", targs,
                [a |-> result[2], f |-> input.f, n |-> input.n + 1],
                modus_ponens(result[2], input.f),
                modus_ponens_calls(result[2], input.f))

\* syllogism(f, g), and with a third map h associated both ways
Call_syllogism ==
  /\ Idle
  /\ \E A \in Props, B \in Props, C \in Props, D \in Props :
       /\ Size(Implies(A, B)) * Size(Implies(B, C)) * Size(Implies(C, D))
            <= MaxInputs
       /\ \E f \in Inh(Implies(A, B)), g \in Inh(Implies(B, C)),
             h \in Inh(Implies(C, D)) :
            Done("syllogism", <<A, B, C, D>>, [f |-> f, g |-> g, h |-> h],
                 [fg |-> syllogism(A, f, g),
                  left |-> syllogism(A, syllogism(A, f, g), h),
                  right |-> syllogism(A, f, syllogism(B, g, h))])

\* permute(f)
Call_permute ==
  /\ Idle
  /\ \E A \in Props, B \in Props, C \in Props :
       /\ Size(Implies(A, Implies(B, C))) <= MaxInputs
       /\ \E f \in Inh(Implies(A, Implies(B, C))) :
            Done("permute", <<A, B, C>>, [f |-> f], permute(A, B, f))

\* exported = exportation(f); imported = importation(exported)
Call_exportation ==
  /\ Idle
  /\ \E A \in Props, B \in Props, C \in Props :
       /\ Size(Implies(And(A, B), C)) <= MaxInputs
       /\ \E f \in Inh(Implies(And(A, B), C)) :
            LET exported == exportation(A, B, f)
            IN Done("exportation", <<A, B, C>>, [f |-> f],
                    [exported |-> exported,
                     imported |-> importation(A, B, exported)])

\* imported = importation(g); exported = exportation(imported)
Call_importation ==
  /\ Idle
  /\ \E A \in Props, B \in Props, C \in Props :
       /\ Size(Implies(A, Implies(B, C))) <= MaxInputs
       /\ \E g \in Inh(Implies(A, Implies(B, C))) :
            LET imported == importation(A, B, g)
            IN Done("importation", <<A, B, C>>, [f |-> g],
                    [imported |-> imported,
                     exported |-> exportation(A, B, imported)])

\* or_elim<A, B, C>()(or_intro_left<A, B>()(x))(ac)(bc), and the same with
\* or_intro_right
Apply_or_elim ==
  /\ Idle
  /\ \E A \in Props, B \in Props, C \in Props :
       /\ (Size(A) + Size(B)) * Size(Implies(A, C)) * Size(Implies(B, C))
            <= MaxInputs
       /\ \E side \in {"left", "right"} :
            \E x \in Inh(IF side = "left" THEN A ELSE B),
               ac \in Inh(Implies(A, C)), bc \in Inh(Implies(B, C)) :
              LET or_ab == IF side = "left" THEN or_intro_left(A, B)[x][2]
                           ELSE or_intro_right(A, B)[x][2]
              IN Done("apply_or_elim", <<A, B, C>>,
                      [side |-> side, x |-> x, ac |-> ac, bc |-> bc],
                      [handler |-> or_elim_visit(A, B, or_ab, ac, bc).handler,
                       out |-> or_elim(A, B, C)[or_ab][2][ac][2][bc]])

\* de_morgan_2(de_morgan_1(n))
Apply_de_morgan_1_then_2 ==
  /\ Idle
  /\ \E A \in Props, B \in Props :
       /\ Size(Not(Or(A, B))) <= MaxInputs
       /\ \E n \in Inh(Not(Or(A, B))) :
            Done("de_morgan_1_then_2", <<A, B>>, [n |-> n],
                 de_morgan_2(A, B)[de_morgan_1(A, B)[n][2]][2])

\* de_morgan_1(de_morgan_2(pair))
Apply_de_morgan_2_then_1 ==
  /\ Idle
  /\ \E A \in Props, B \in Props :
       /\ Size(And(Not(A), Not(B))) <= MaxInputs
       /\ \E pair \in Inh(And(Not(A), Not(B))) :
            Done("de_morgan_2_then_1", <<A, B>>, [pair |-> pair],
                 de_morgan_1(A, B)[de_morgan_2(A, B)[pair][2]][2])

\* principle_of_explosion<A>()(f)
Apply_principle_of_explosion ==
  /\ Idle
  /\ \E A \in ExplosionProps : \E f \in Inh(False) :
       Done("explode", <<A>>, [f |-> f], principle_of_explosion(A)[f])

Call_prove_dne_from_lem ==
  /\ Idle
  /\ \E A \in ClassicalProps : \E lem_instance \in Inh(Or(A, Not(A))) :
       Done("prove_dne_from_lem", <<A>>, [instance |-> lem_instance],
            prove_dne_from_lem(A, lem_instance))

\* prove_dne_from_lem(lem_instance) applied to a proof of Not(Not(A))
Apply_prove_dne_from_lem ==
  /\ Idle
  /\ \E A \in ClassicalProps :
      \E lem_instance \in Inh(Or(A, Not(A))), nna \in Inh(Not(Not(A))) :
       DoneLogged("apply_prove_dne_from_lem", <<A>>,
                  [lem |-> lem_instance, nna |-> nna],
                  prove_dne_from_lem(A, lem_instance)[nna],
                  prove_dne_from_lem_calls(A, lem_instance, nna))

Call_prove_peirce_from_dne ==
  /\ Idle
  /\ \E A \in ClassicalProps, B \in ClassicalProps :
      \E dne_instance \in DneInstances(A) :
       Done("prove_peirce_from_dne", <<A, B>>, [instance |-> dne_instance],
            prove_peirce_from_dne(A, B, dne_instance))

\* prove_peirce_from_dne(dne_instance)(f), for a dne_instance and an f
\* of known behaviour
Apply_prove_peirce_from_dne ==
  /\ Idle
  /\ \E A \in ClassicalProps, B \in ClassicalProps :
      \E dne_b \in Behaviours(Inh(Not(A)), A), f_b \in Behaviours(Inh(A), A) :
       DoneLogged("apply_prove_peirce_from_dne", <<A, B>>,
                  [dne |-> dne_b, f |-> f_b],
                  prove_peirce_from_dne(A, B, TableOf(dne_b, Not(Not(A))))
                    [TableOf(f_b, Implies(A, B))],
                  prove_peirce_from_dne_calls(A, B, dne_b, f_b))

Call_prove_dne_from_peirce ==
  /\ Idle
  /\ \E A \in ClassicalProps : \E peirce_instance \in PeirceInstances(A) :
       Done("prove_dne_from_peirce", <<A, False>>, [instance |-> peirce_instance],
            prove_dne_from_peirce(A, peirce_instance))

\* prove_dne_from_peirce(peirce_instance)(nna), for a peirce_instance of
\* known behaviour
Apply_prove_dne_from_peirce ==
  /\ Idle
  /\ \E A \in ClassicalProps :
      \E peirce_b \in Behaviours(Inh(Not(A)), A), nna \in Inh(Not(Not(A))) :
       DoneLogged("apply_prove_dne_from_peirce", <<A, False>>,
                  [peirce |-> peirce_b, nna |-> nna],
                  prove_dne_from_peirce(A, TableOf(peirce_b, Implies(Not(A), A)))
                    [nna],
                  prove_dne_from_peirce_calls(A, peirce_b, nna))

\* the rules that end in a False, applied to every curried argument
Apply_double_negation_intro ==
  /\ Idle
  /\ \E A \in Props : \E a \in Inh(A), f \in Inh(Not(A)) :
       DoneLogged("apply_double_negation_intro", <<A>>, [a |-> a, f |-> f],
                  double_negation_intro(A)[a][2][f],
                  double_negation_intro_calls(a, f))

Apply_contraposition ==
  /\ Idle
  /\ \E A \in Props, B \in Props :
       /\ Size(Implies(A, B)) * Size(Not(B)) * Size(A) <= MaxInputs
       /\ \E ab \in Inh(Implies(A, B)), not_b \in Inh(Not(B)), a \in Inh(A) :
            DoneLogged("apply_contraposition", <<A, B>>,
                       [ab |-> ab, not_b |-> not_b, a |-> a],
                       contraposition(A, B)[ab][2][not_b][2][a],
                       contraposition_calls(ab, not_b, a))

Apply_de_morgan_1 ==
  /\ Idle
  /\ \E A \in Props, B \in Props :
       /\ Size(Not(Or(A, B))) * Size(Or(A, B)) <= MaxInputs
       /\ \E not_or_ab \in Inh(Not(Or(A, B))), or_ab \in Inh(Or(A, B)) :
            LET pair == de_morgan_1(A, B)[not_or_ab][2]
            IN DoneLogged("apply_de_morgan_1", <<A, B>>,
                          [not_or_ab |-> not_or_ab, or_ab |-> or_ab],
                          IF or_ab[1] = 0 THEN pair.a[or_ab[2]]
                          ELSE pair.b[or_ab[2]],
                          de_morgan_1_calls(not_or_ab, or_ab[1], or_ab[2]))

Apply_de_morgan_2 ==
  /\ Idle
  /\ \E A \in Props, B \in Props :
       /\ Size(And(Not(A), Not(B))) * Size(Or(A, B)) <= MaxInputs
       /\ \E pair \in Inh(And(Not(A), Not(B))), or_ab \in Inh(Or(A, B)) :
            DoneLogged("apply_de_morgan_2", <<A, B>>,
                       [pair |-> pair, or_ab |-> or_ab],
                       de_morgan_2(A, B)[pair][2][or_ab],
                       de_morgan_2_calls(A, B, pair, or_ab))

Apply_reductio_ad_absurdum ==
  /\ Idle
  /\ \E A \in Props, B \in Props :
       /\ Size(Implies(A, B)) * Size(Implies(A, Not(B))) * Size(A) <= MaxInputs
       /\ \E a_implies_b \in Inh(Implies(A, B)),
             a_implies_not_b \in Inh(Implies(A, Not(B))), a \in Inh(A) :
            DoneLogged("apply_reductio_ad_absurdum", <<A, B>>,
                       [a_implies_b |-> a_implies_b,
                        a_implies_not_b |-> a_implies_not_b, a |-> a],
                       reductio_ad_absurdum(A, B)
                         [a_implies_b][2][a_implies_not_b][2][a],
                       reductio_ad_absurdum_calls(a_implies_b, a_implies_not_b, a))

\* permute, exportation and importation at C = False
Apply_permute ==
  /\ Idle
  /\ \E A \in Props, B \in Props :
       /\ Size(Implies(A, Not(B))) * Size(A) * Size(B) <= MaxInputs
       /\ \E f \in Inh(Implies(A, Not(B))), a \in Inh(A), b \in Inh(B) :
            DoneLogged("apply_permute", <<A, B, False>>,
                       [f |-> f, a |-> a, b |-> b],
                       BindApply(permute(A, B, f)[b], a),
                       permute_calls(f, b, a))

Apply_exportation ==
  /\ Idle
  /\ \E A \in Props, B \in Props :
       /\ Size(Not(And(A, B))) * Size(A) * Size(B) <= MaxInputs
       /\ \E f \in Inh(Not(And(A, B))), a \in Inh(A), b \in Inh(B) :
            DoneLogged("apply_exportation", <<A, B, False>>,
                       [f |-> f, a |-> a, b |-> b],
                       BindApply(exportation(A, B, f)[a], b),
                       exportation_calls(f, a, b))

Apply_importation ==
  /\ Idle
  /\ \E A \in Props, B \in Props :
       /\ Size(Implies(A, Not(B))) * Size(And(A, B)) <= MaxInputs
       /\ \E f \in Inh(Implies(A, Not(B))), premises \in Inh(And(A, B)) :
            DoneLogged("apply_importation", <<A, B, False>>,
                       [f |-> f, premises |-> premises],
                       importation(A, B, f)[premises],
                       importation_calls(f, premises))

InstantiateAdd ==
  /\ Idle
  /\ \E N \in Numerals, M \in Numerals :
       Instantiated("Add", <<N, M>>, Add(N, M))

InstantiateMultiply ==
  /\ Idle
  /\ \E N \in Numerals, M \in Numerals :
       Instantiated("Multiply", <<N, M>>, Multiply(N, M))

Instantiate_theorem_add_zero_is_n ==
  /\ Idle
  /\ \E N \in Numerals :
       Instantiated("theorem_add_zero_is_n", <<N>>, theorem_add_zero_is_n(N))

\* the driver drops the result and is idle again
Return ==
  /\ ~Idle
  /\ op' = "none"
  /\ targs' = <<>>
  /\ input' = NoInput
  /\ result' = <<>>
  /\ called' = <<>>

Next ==
  \/ InstantiateAnd
  \/ InstantiateOr
  \/ InstantiateNot
  \/ InstantiateImplies
  \/ InstantiateEquiv
  \/ InstantiateSyllogism
  \/ Call_and_intro
  \/ Call_and_elim_left
  \/ Call_and_elim_right
  \/ Call_or_intro_left
  \/ Call_or_intro_right
  \/ Call_or_elim
  \/ Call_double_negation_intro
  \/ Call_principle_of_explosion
  \/ Call_prove_syllogism
  \/ Call_prove_syllogism_curried
  \/ Call_contraposition
  \/ Call_de_morgan_1
  \/ Call_de_morgan_2
  \/ Call_reductio_ad_absurdum
  \/ Call_modus_ponens
  \/ Call_modus_ponens_again
  \/ Call_syllogism
  \/ Call_permute
  \/ Call_exportation
  \/ Call_importation
  \/ Apply_or_elim
  \/ Apply_de_morgan_1_then_2
  \/ Apply_de_morgan_2_then_1
  \/ Apply_principle_of_explosion
  \/ Call_prove_dne_from_lem
  \/ Apply_prove_dne_from_lem
  \/ Call_prove_peirce_from_dne
  \/ Apply_prove_peirce_from_dne
  \/ Call_prove_dne_from_peirce
  \/ Apply_prove_dne_from_peirce
  \/ Apply_double_negation_intro
  \/ Apply_contraposition
  \/ Apply_de_morgan_1
  \/ Apply_de_morgan_2
  \/ Apply_reductio_ad_absurdum
  \/ Apply_permute
  \/ Apply_exportation
  \/ Apply_importation
  \/ InstantiateAdd
  \/ InstantiateMultiply
  \/ Instantiate_theorem_add_zero_is_n
  \/ Return

Spec == Init /\ [][Next]_vars

(***************************************************************************)
(* Properties.                                                             *)
(***************************************************************************)
\* the i-th template argument of the operation (True when it has fewer)
Targ(i) == IF i <= Len(targs) THEN targs[i] ELSE True

NullaryRules ==
  {"and_intro", "and_elim_left", "and_elim_right", "or_intro_left",
   "or_intro_right", "or_elim", "double_negation_intro",
   "principle_of_explosion", "prove_syllogism", "prove_syllogism_curried",
   "contraposition", "de_morgan_1", "de_morgan_2", "reductio_ad_absurdum"}

\* C1: the boolean-layer Syllogism<A, B, C>::type is TrueType for each of
\* the 8 assignments of TrueType / FalseType to A, B, C.
C1_SyllogismIsTautology == op = "Syllogism" => result = TrueType

C1_Witness ==
  /\ op = "Syllogism"
  /\ targs = <<FalseType, TrueType, FalseType>>
  /\ result = TrueType

\* C2 (as claimed): or_elim applied to or_intro_left(a) invokes only ac and
\* returns ac(a), applied to or_intro_right(b) invokes only bc and returns
\* bc(b), also when A and B are the same type.
C2_DispatchByVariant ==
  op = "apply_or_elim" =>
    /\ input.side = "left" =>
         result.handler = "ac" /\ result.out = input.ac[input.x]
    /\ input.side = "right" =>
         result.handler = "bc" /\ result.out = input.bc[input.x]

\* C3 (as claimed): for A = B = False, de_morgan_2(de_morgan_1(n)) behaves
\* as n on every value of Or<False, False>, and de_morgan_1(de_morgan_2(p))
\* has components that behave as those of p.
C3_DeMorganRoundTrip ==
  /\ op = "de_morgan_1_then_2" /\ targs = <<False, False>> =>
       \A v \in Inh(Or(False, False)) : result[v] = input.n[v]
  /\ op = "de_morgan_2_then_1" /\ targs = <<False, False>> =>
       \A x \in Inh(False) :
         result.a[x] = input.pair.a[x] /\ result.b[x] = input.pair.b[x]

\* C4: what every rule and every classical-axiom transformer returns, for
\* all values of its argument types, is a value of its predicted type.
C4_ResultHasPredictedType ==
  LET A == Targ(1)
      B == Targ(2)
      C == Targ(3)
      D == Targ(4)
  IN /\ op \in NullaryRules => HasType(result, RuleType(op, A, B, C))
     /\ op = "modus_ponens" => OutHasType(result, B)
     /\ op = "syllogism" =>
          /\ HasType(result.fg, Implies(A, C))
          /\ HasType(result.left, Implies(A, D))
          /\ HasType(result.right, Implies(A, D))
     /\ op = "permute" => HasType(result, Implies(B, Implies(A, C)))
     /\ op = "exportation" =>
          /\ HasType(result.exported, Implies(A, Implies(B, C)))
          /\ HasType(result.imported, Implies(And(A, B), C))
     /\ op = "importation" =>
          /\ HasType(result.imported, Implies(And(A, B), C))
          /\ HasType(result.exported, Implies(A, Implies(B, C)))
     /\ op = "apply_or_elim" => OutHasType(result.out, C)
     /\ op = "de_morgan_1_then_2" => HasType(result, Not(Or(A, B)))
     /\ op = "de_morgan_2_then_1" => HasType(result, And(Not(A), Not(B)))
     /\ op = "prove_dne_from_lem" => HasType(result, Implies(Not(Not(A)), A))
     /\ op = "prove_peirce_from_dne" =>
          HasType(result, Implies(Implies(Implies(A, B), A), A))
     /\ op = "prove_dne_from_peirce" => HasType(result, Implies(Not(Not(A)), A))

C4_Witness ==
  /\ op = "and_intro"
  /\ targs = <<int, False>>
  /\ HasType(result, Implies(int, Implies(False, And(int, False))))
  /\ ~HasType(result, Implies(int, Implies(False, And(False, int))))

\* C5: the boolean-layer Implies<A, B>::type is TrueType when A is
\* FalseType, and is B when A is TrueType.
C5_MaterialImplication ==
  op = "Implies" =>
    /\ targs[1] = FalseType => result = TrueType
    /\ targs[1] = TrueType => result = targs[2]

C5_Witness ==
  op = "Implies" /\ targs = <<FalseType, FalseType>> /\ result = TrueType

\* C6: the boolean-layer Equiv<A, B>::type is TrueType exactly when A and B
\* are the same truth value, and FalseType otherwise.
C6_EquivIffSame ==
  op = "Equiv" =>
    result = IF targs[1] = targs[2] THEN TrueType ELSE FalseType

C6_Witness ==
  op = "Equiv" /\ targs = <<TrueType, FalseType>> /\ result = FalseType

\* C7: the boolean-layer And, Or and Not have exactly one member type for
\* every assignment, the one of the classical truth table.
C7_TruthTables ==
  /\ op = "And" =>
       result = IF targs = <<TrueType, TrueType>> THEN TrueType ELSE FalseType
  /\ op = "Or" =>
       result = IF targs = <<FalseType, FalseType>> THEN FalseType ELSE TrueType
  /\ op = "Not" =>
       result = IF targs = <<FalseType>> THEN TrueType ELSE FalseType

C7_Witness ==
  op = "Or" /\ targs = <<TrueType, TrueType>> /\ result = TrueType

\* C8: importation(exportation(f)) returns what f returns on every pair,
\* and exportation(importation(g))(a)(b) ends as g(a)(b) does.
C8_ExportImportInverse ==
  /\ op = "exportation" =>
       \A p \in Inh(And(Targ(1), Targ(2))) : result.imported[p] = input.f[p]
  /\ op = "importation" =>
       \A a \in Inh(Targ(1)), b \in Inh(Targ(2)) :
         BindApply(result.exported[a], b) = BindApply(input.f[a], b)

C8_Witness ==
  /\ op = "exportation"
  /\ targs = <<int, True, int>>
  /\ \E p \in DOMAIN input.f, q \in DOMAIN input.f :
       p.a # q.a /\ input.f[p] # input.f[q]
  /\ result.imported = input.f

\* C9: syllogism(syllogism(f, g), h) and syllogism(f, syllogism(g, h)) both
\* map every a to h(g(f(a))); the maps prove_syllogism and
\* prove_syllogism_curried return for premises f, g map every a to g(f(a)).
C9_SyllogismAssociative ==
  /\ op = "syllogism" =>
       \A a \in Inh(Targ(1)) :
         /\ result.left[a] = Bind(Bind(input.f[a], input.g), input.h)
         /\ result.right[a] = Bind(Bind(input.f[a], input.g), input.h)
         /\ result.fg[a] = Bind(input.f[a], input.g)
  /\ op = "prove_syllogism" =>
       \A p \in Inh(And(Implies(Targ(1), Targ(2)), Implies(Targ(2), Targ(3)))) :
         \A a \in Inh(Targ(1)) : BindApply(result[p], a) = Bind(p.a[a], p.b)
  /\ op = "prove_syllogism_curried" =>
       \A ab \in Inh(Implies(Targ(1), Targ(2))),
          bc \in Inh(Implies(Targ(2), Targ(3))) :
         \A a \in Inh(Targ(1)) :
           BindApply(BindApply(result[ab], bc), a) = Bind(ab[a], bc)

C9_Witness ==
  /\ op = "syllogism"
  /\ targs = <<True, int, int, True>>
  /\ \E x \in Inh(int) : input.g[x] = Throw("logic_error")
  /\ result.left = result.right
  /\ result.left["True{}"] = Ret("True{}")

\* C10: principle_of_explosion<A>() returns a map without throwing, and the
\* map throws std::logic_error for every False value it is invoked with; it
\* never returns a value of A.
C10_ExplosionAlwaysThrows ==
  /\ op = "principle_of_explosion" =>
       /\ DOMAIN result = Inh(False)
       /\ \A f \in Inh(False) : result[f] = Throw("logic_error")
  /\ op = "explode" => result = Throw("logic_error")

C10_Witness ==
  op = "explode" /\ targs = <<int>> /\ result = Throw("logic_error")

\* C11: every rule of constructive_logic.h other than principle_of_explosion
\* is total: constructed and applied to total arguments, at every curried
\* level, it returns a value and never throws.
C11_RulesAreTotal ==
  LET A == Targ(1)
      B == Targ(2)
      C == Targ(3)
      D == Targ(4)
  IN /\ op \in NullaryRules \ {"principle_of_explosion"} =>
          Total(result, RuleType(op, A, B, C))
     /\ op = "modus_ponens" /\ Total(input.f, Implies(A, B)) => ~result[1]
     /\ op = "syllogism" /\ Total(input.f, Implies(A, B))
          /\ Total(input.g, Implies(B, C)) /\ Total(input.h, Implies(C, D)) =>
          /\ Total(result.fg, Implies(A, C))
          /\ Total(result.left, Implies(A, D))
          /\ Total(result.right, Implies(A, D))
     /\ op = "permute" /\ Total(input.f, Implies(A, Implies(B, C))) =>
          Total(result, Implies(B, Implies(A, C)))
     /\ op = "exportation" /\ Total(input.f, Implies(And(A, B), C)) =>
          /\ Total(result.exported, Implies(A, Implies(B, C)))
          /\ Total(result.imported, Implies(And(A, B), C))
     /\ op = "importation" /\ Total(input.f, Implies(A, Implies(B, C))) =>
          /\ Total(result.imported, Implies(And(A, B), C))
          /\ Total(result.exported, Implies(A, Implies(B, C)))
     /\ op = "apply_or_elim" /\ Total(input.ac, Implies(A, C))
          /\ Total(input.bc, Implies(B, C)) => ~result.out[1]

C11_Witness ==
  /\ op = "de_morgan_2"
  /\ targs = <<int, False>>
  /\ Total(result, RuleType("de_morgan_2", int, False, True))
  /\ \E p \in DOMAIN result : \E v \in DOMAIN result[p][2] : result[p][2][v][1]

\* C12: modus_ponens(a, f) returns exactly f(a) and invokes f once, on a;
\* with always_true on True it returns True{}, and applied again and again
\* to its own result it keeps returning True{}.
C12_ModusPonensAppliesOnce ==
  op = "modus_ponens" =>
    /\ result = input.f[input.a]
    /\ called = <<<<"f", input.a, result>>>>
    /\ targs = <<True, True>> /\ input.f = always_true => result = Ret("True{}")

C12_Witness ==
  /\ op = "modus_ponens"
  /\ targs = <<True, True>>
  /\ input.f = always_true
  /\ input.n = MaxRepeat
  /\ result = Ret("True{}")
  /\ Len(called) = 1

\* C13: prove_dne_from_lem(lem)(nna) splits on the side of lem: on the left
\* side (a) it returns a and invokes neither nna nor the explosion; on the
\* right side (na) it invokes nna on na first and then the explosion of A on
\* the False that nna returned, which throws (an exception of nna itself
\* propagates and is the only call).
C13_DneFromLemCaseSplit ==
  op = "apply_prove_dne_from_lem" =>
    LET A == Targ(1)
        lem == input.lem
        contradiction == input.nna[lem[2]]
    IN /\ lem[1] = 0 => result = Ret(lem[2]) /\ called = <<>>
       /\ lem[1] = 1 =>
            /\ Len(called) >= 1
            /\ called[1] = <<"nna", lem[2], contradiction>>
            /\ ~contradiction[1] =>
                 /\ Len(called) = 2
                 /\ called[2] = <<"principle_of_explosion", contradiction[2],
                                 Throw("logic_error")>>
                 /\ result = Throw("logic_error")
            /\ contradiction[1] => Len(called) = 1 /\ result = contradiction

C13_Witness ==
  /\ op = "apply_prove_dne_from_lem"
  /\ targs = <<True>>
  /\ input.lem[1] = 1
  /\ ~input.nna[input.lem[2]][1]
  /\ Len(called) = 2
  /\ result = Throw("logic_error")

\* C14: prove_peirce_from_dne(dne)(f) returns what dne returns for nna, where
\* nna(na) applies f to a map that always ends in an exception (that of na,
\* or the explosion after na returned) and feeds the A that f returned into
\* na; f is invoked only inside an invocation of nna by dne.
C14_PeirceFromDne ==
  op = "apply_prove_peirce_from_dne" =>
    LET A == Targ(1)
        B == Targ(2)
        dne == TableOf(input.dne, Not(Not(A)))
        f == TableOf(input.f, Implies(A, B))
        exploding(na) == [a \in Inh(A) |->
                           IF na[a][1] THEN na[a] ELSE Throw("logic_error")]
        nna == [na \in Inh(Not(A)) |->
                 LET result_A == f[exploding(na)]
                 IN IF result_A[1] THEN result_A ELSE na[result_A[2]]]
    IN /\ result = dne[nna]
       /\ called[1] = <<"dne_instance", nna, result>>
       /\ \A i \in 1..Len(called) :
            /\ called[i][1] = "nna" => i = 2
            /\ called[i][1] = "f" =>
                 /\ i = 3
                 /\ called[2][1] = "nna"
                 /\ called[i][2] = exploding(called[2][2])
                 /\ \A a \in Inh(A) : called[i][2][a][1]
                 /\ ~called[i][3][1] =>
                      called[Len(called)] =
                        <<"na", called[i][3][2], called[2][2][called[i][3][2]]>>
            /\ called[i][1] = "a_to_b" =>
                 /\ called[i][3][1]
                 /\ called[i + 1] = <<"na", called[i][2], called[2][2][called[i][2]]>>

C14_Witness ==
  /\ op = "apply_prove_peirce_from_dne"
  /\ targs = <<True, False>>
  /\ Len(input.dne.probe) = 1
  /\ Len(input.f.probe) = 0
  /\ ~input.f.out[1]
  /\ Len(called) = 4
  /\ called[3][1] = "f"
  /\ called[4][1] = "na"

\* the operations that handle False values and log their calls
FalseOps ==
  {"apply_double_negation_intro", "apply_contraposition", "apply_de_morgan_1",
   "apply_de_morgan_2", "apply_reductio_ad_absurdum", "apply_permute",
   "apply_exportation", "apply_importation", "apply_prove_dne_from_lem",
   "apply_prove_peirce_from_dne", "apply_prove_dne_from_peirce"}

\* the logged functions of the operation that the caller supplied (or that a
\* supplied function produced) and that return a False
FalseSuppliers ==
  CASE op = "apply_double_negation_intro" -> {"f"}
    [] op = "apply_contraposition" ->
         {"not_b"} \cup (IF Targ(2) = False THEN {"ab"} ELSE {})
    [] op = "apply_de_morgan_1" -> {"not_or_ab"}
    [] op = "apply_de_morgan_2" -> {"not_a", "not_b"}
    [] op = "apply_reductio_ad_absurdum" ->
         {"not_b"} \cup (IF Targ(2) = False THEN {"a_implies_b"} ELSE {})
    [] op = "apply_permute" -> {"f(a)"}
    [] op = "apply_exportation" -> {"f"}
    [] op = "apply_importation" -> {"f(a)"}
    [] op = "apply_prove_dne_from_lem" -> {"nna"}
    [] op = "apply_prove_peirce_from_dne" ->
         {"na"} \cup (IF Targ(1) = False THEN {"dne_instance", "f"} ELSE {})
    [] op = "apply_prove_dne_from_peirce" ->
         {"nna"} \cup (IF Targ(1) = False THEN {"peirce_instance"} ELSE {})
    [] OTHER -> {}

\* the logged functions the library constructs that return a False
LibraryIntoFalse ==
  IF op = "apply_prove_peirce_from_dne"
  THEN {"nna"} \cup (IF Targ(2) = False THEN {"a_to_b"} ELSE {})
  ELSE {}

\* the operation's result is of type False
ReturnsFalse ==
  IF op \in {"apply_prove_dne_from_lem", "apply_prove_peirce_from_dne",
             "apply_prove_dne_from_peirce"}
  THEN Targ(1) = False
  ELSE op \in FalseOps

\* x is what one of the first n logged calls of a supplier returned
FromSupplier(x, n) ==
  \E j \in 1..n : called[j][1] \in FalseSuppliers /\ called[j][3] = Ret(x)

\* every False handed to the explosion, or returned by a function the
\* library constructs, was returned by a supplier before; and the explosion
\* is not entered when no supplier returned a False
PassedFalseIsSupplied ==
  /\ \A i \in 1..Len(called) :
       /\ called[i][1] = "principle_of_explosion" =>
            FromSupplier(called[i][2], i - 1)
       /\ called[i][1] \in LibraryIntoFalse /\ ~called[i][3][1] =>
            FromSupplier(called[i][3][2], Len(called))
  /\ (\A j \in 1..Len(called) :
        called[j][1] \in FalseSuppliers => called[j][3][1]) =>
       \A i \in 1..Len(called) : called[i][1] # "principle_of_explosion"

\* C15 (as stated): every False value a rule or transformer returns or hands
\* to principle_of_explosion was returned by an invocation of a supplied
\* function; when no supplied function returns a False the explosion is not
\* entered.
C15_FalseFromSuppliedFunction ==
  op \in FalseOps =>
    /\ ReturnsFalse /\ ~result[1] => FromSupplier(result[2], Len(called))
    /\ PassedFalseIsSupplied

\* C15 (amended): every False value a rule or transformer returns or hands to
\* principle_of_explosion was supplied by the caller: returned by an
\* invocation of a supplied function or, for prove_dne_from_lem at A = False,
\* held on the left side of the supplied Or; when no supplied function
\* returns a False the explosion is not entered.
C15_FalseIsNeverFabricated ==
  op \in FalseOps =>
    /\ ReturnsFalse /\ ~result[1] =>
         \/ FromSupplier(result[2], Len(called))
         \/ /\ op = "apply_prove_dne_from_lem"
            /\ input.lem[1] = 0
            /\ result = Ret(input.lem[2])
    /\ PassedFalseIsSupplied

C15_Witness ==
  /\ op = "apply_prove_dne_from_peirce"
  /\ Len(called) = 4
  /\ called[3][1] = "nna"
  /\ called[4][1] = "principle_of_explosion"
  /\ called[3][3] = Ret(called[4][2])
  /\ result = Throw("logic_error")

\* C16: Add<N, M> is the numeral of n + m and Multiply<N, M> the numeral of
\* n * m for all numerals up to MaxPeano; Add<N, Zero> is N (the
\* static_assert of theorem_add_zero_is_n passes), Add<One, Two> is Three and
\* Multiply<Two, Two> is Four.
C16_PeanoArithmetic ==
  /\ op = "Add" =>
       /\ result = Numeral(Value(targs[1]) + Value(targs[2]))
       /\ targs[2] = Zero => result = targs[1]
       /\ targs = <<One, Two>> => result = Three
  /\ op = "Multiply" =>
       /\ result = Numeral(Value(targs[1]) * Value(targs[2]))
       /\ targs = <<Two, Two>> => result = Four
  /\ op = "theorem_add_zero_is_n" => result = TRUE

C16_Witness ==
  /\ op = "Multiply"
  /\ targs = <<Two, Three>>
  /\ Value(result) = 6

====
